---------------------------- MODULE Spec2Model ----------------------------
(***************************************************************************)
(* Model of the FRED experiment driver (src/FRED/main.py) and of the       *)
(* simulation selection of the SEIR plotting toolkit                       *)
(* (src/SEIR_ODE/examples/plotting.py).                                    *)
(*                                                                         *)
(* Four specifications share the module's variables:                       *)
(*   Spec           run(args): the try / except / finally driver           *)
(*   SpecParams     get_default_params, dump_parameter_file and the cache  *)
(*   SpecRoundTrip  the name = value writer followed by read_param_file    *)
(*   SpecPlot       make_trajectory_plot's choice of simulation indices    *)
(* Each specification leaves the variables of the others untouched.        *)
(*                                                                         *)
(* Importance weights are held in hundredths: 51 stands for 0.51.          *)
(* Strings that are parsed are sequences of one-character strings.         *)
(* A Python dict is an insertion-ordered sequence of <<key, value>> pairs. *)
(***************************************************************************)
EXTENDS Integers, Sequences, FiniteSets, TLC

VARIABLES
    \* ---- run(args) ----
    args,           \* the resolved configuration record read by run
    pc,             \* position of the control flow inside run
    model_bound,    \* the local name `model` has been assigned
    proc,           \* model._model_process: "none", or the tracked pid "alive" / "gone"
    traces,         \* the weights of the traces posterior returned
    idx,            \* loop index of the per-trace loop
    trace_weights,  \* dict idx -> 0 / 1
    files,          \* files present in args.out_dir
    archives,       \* the two archive destinations
    exc,            \* exception in flight ("none" when there is none)
    caught,         \* the exception bound to e by `except Exception as e`
    signals,        \* SIGTERMs sent by run to the tracked process group
    cwd,            \* working directory of the driver process
    \* ---- parameter files ----
    cwd_defaults,   \* ./defaults: Absent or its lines
    home_defaults,  \* FRED_HOME/input_files/defaults: Absent or its lines
    default_params, \* the module global: 0 for None, else a heap address
    heap,           \* address -> dict, the dict objects alive
    handles,        \* addresses of the dicts returned to outside callers
    out_file,       \* lines last written by dump_parameter_file
    pstat,          \* bookkeeping of the calls made so far
    \* ---- round trip ----
    rt,             \* the mapping, the lines written and the mapping read back
    \* ---- plotting ----
    plot            \* a make_trajectory_plot call in progress

runVars    == <<args, pc, model_bound, proc, traces, idx, trace_weights, files,
                archives, exc, caught, signals, cwd>>
paramVars  == <<cwd_defaults, home_defaults, default_params, heap, handles,
                out_file, pstat>>
vars       == <<args, pc, model_bound, proc, traces, idx, trace_weights, files,
                archives, exc, caught, signals, cwd,
                cwd_defaults, home_defaults, default_params, heap, handles,
                out_file, pstat, rt, plot>>

-----------------------------------------------------------------------------
(* Bounds of the model *)

MaxTraces == 3

\* importance weights (hundredths) the inference engine may hand back
Weights == {10, 20, 30, 50, 51, 70, 80, 90}

RECURSIVE SeqsUpTo(_, _)
SeqsUpTo(S, n) ==
    IF n = 0 THEN {<<>>}
    ELSE LET shorter == SeqsUpTo(S, n - 1)
         IN  shorter \cup {Append(s, x) : s \in {t \in shorter : Len(t) = n - 1}, x \in S}

SeqsOfLen(S, n) == {s \in SeqsUpTo(S, n) : Len(s) = n}

-----------------------------------------------------------------------------
(* run(args)                                                               *)

\* assert weight < 0.2 or weight > 0.8
BandLow == 20
BandHigh == 80
\* int(weight > 0.5)
Threshold == 50

NoArchive == [status |-> "absent", members |-> {}]

Archive(path) == archives[path]

ParamsFile(i) == <<"params", i>>
LogFile(i)    == <<"LOG", i>>
WeightsJson   == <<"weights.json", 0>>
TracesFile    == <<"traces", 0>>

\* model_dispatcher: the files the spawned shell command creates in out_dir
model_dispatcher(trace_idx) ==
    IF args.dump_simulator_log THEN {LogFile(trace_idx)} ELSE {}

RunInit ==
    /\ args \in [compressed_file_path : BOOLEAN,
                 dump_simulator_log   : BOOLEAN,
                 num_traces           : 0..MaxTraces]
    /\ pc = "start"
    /\ model_bound = FALSE
    /\ proc = "none"
    /\ traces = <<>>
    /\ idx = 0
    /\ trace_weights = <<>>
    /\ files = {}
    /\ archives = [p \in {"zip", "zip_failed"} |-> NoArchive]
    /\ exc = "none"
    /\ caught = "none"
    /\ signals = 0
    /\ cwd = "orig"

\* control reaches the except clause with exception e in flight
Raise(e) ==
    /\ exc' = e
    /\ pc' = "except"

\* zipdir(path, dir_path) with one of its three outcomes:
\*   "ok"    every file of the directory is in the archive, cwd restored
\*   "open"  ZipFile(path, 'w') raises: nothing written, cwd untouched
\*   "walk"  a write raises mid-walk: truncated archive, cwd left in dir_path
ZipOutcomes == {"ok", "open", "walk"}

zipdir(path, outcome) ==
    /\ archives' = [archives EXCEPT ![path] =
                      CASE outcome = "ok"   -> [status |-> "complete", members |-> files]
                        [] outcome = "walk" -> [status |-> "truncated", members |-> {}]
                        [] OTHER            -> @]
    /\ cwd' = IF outcome = "walk" THEN "out_dir" ELSE cwd

\* line 144: model = RemoteModel(...)
ConstructModel ==
    /\ pc = "start"
    /\ \/ /\ model_bound' = TRUE
          /\ pc' = "posterior"
          /\ UNCHANGED exc
       \/ /\ Raise("ModelError")
          /\ UNCHANGED model_bound
    /\ UNCHANGED <<args, proc, traces, idx, trace_weights, files, archives,
                   caught, signals, cwd>>
    /\ UNCHANGED <<paramVars, rt, plot>>

\* line 148: traces = model.posterior(num_traces=...). The engine calls
\* model_dispatcher once per trace it starts (restart_per_trace); the handle
\* tracks the process spawned last. It returns num_traces traces or raises.
Posterior ==
    /\ pc = "posterior"
    /\ \E spawned \in 0..args.num_traces :
         /\ files' = files \cup UNION {model_dispatcher(i) : i \in 0..(spawned - 1)}
         /\ proc' = IF spawned > 0 THEN "alive" ELSE "none"
         /\ \/ /\ spawned = args.num_traces
               /\ traces' \in SeqsOfLen(Weights, args.num_traces)
               /\ pc' = IF args.num_traces > 0 THEN "dump" ELSE "save_weights"
               /\ UNCHANGED exc
            \/ /\ Raise("PosteriorError")
               /\ UNCHANGED traces
    /\ UNCHANGED <<args, model_bound, idx, trace_weights, archives, caught,
                   signals, cwd>>
    /\ UNCHANGED <<paramVars, rt, plot>>

\* the per-trace step with the write of params<idx> left out
DumpParamsMissing ==
    /\ pc = "dump"
    /\ \/ /\ pc' = "assert"
          /\ UNCHANGED <<files, exc>>
       \/ /\ Raise("IOError")
          /\ UNCHANGED files
    /\ UNCHANGED <<args, model_bound, proc, traces, idx, trace_weights,
                   archives, caught, signals, cwd>>
    /\ UNCHANGED <<paramVars, rt, plot>>

\* lines 153-156: the latent is coerced (a missing latent raises) and
\* dump_parameter_file writes params<idx> (an I/O error raises)
DumpParams ==
    /\ pc = "dump"
    /\ \/ /\ files' = files \cup {ParamsFile(idx)}
          /\ pc' = "assert"
          /\ UNCHANGED exc
       \/ /\ Raise("IOError")
          /\ UNCHANGED files
    /\ UNCHANGED <<args, model_bound, proc, traces, idx, trace_weights,
                   archives, caught, signals, cwd>>
    /\ UNCHANGED <<paramVars, rt, plot>>

\* the band test with the two bounds let through
WeightOutsideBandClosed(w) == w <= BandLow \/ w >= BandHigh

\* line 159: weight < 0.2 or weight > 0.8
WeightOutsideBand(w) == w < BandLow \/ w > BandHigh

\* lines 157-159: weight = np.exp(...); assert weight < 0.2 or weight > 0.8
AssertWeight ==
    /\ pc = "assert"
    /\ IF WeightOutsideBand(traces[idx + 1])
       THEN pc' = "classify" /\ UNCHANGED exc
       ELSE Raise("AssertionError")
    /\ UNCHANGED <<args, model_bound, proc, traces, idx, trace_weights, files,
                   archives, caught, signals, cwd>>
    /\ UNCHANGED <<paramVars, rt, plot>>

\* int(weight > 0.5)
ClassifyWeight(w) == IF w > Threshold THEN 1 ELSE 0

\* line 160: trace_weights[idx] = int(weight > 0.5), then the next iteration
Classify ==
    /\ pc = "classify"
    /\ trace_weights' = Append(trace_weights, ClassifyWeight(traces[idx + 1]))
    /\ idx' = idx + 1
    /\ pc' = IF idx + 1 < Len(traces) THEN "dump" ELSE "save_weights"
    /\ UNCHANGED <<args, model_bound, proc, traces, files, archives, exc,
                   caught, signals, cwd>>
    /\ UNCHANGED <<paramVars, rt, plot>>

\* lines 165-167: weights.json
SaveWeights ==
    /\ pc = "save_weights"
    /\ \/ /\ files' = files \cup {WeightsJson}
          /\ pc' = "save_traces"
          /\ UNCHANGED exc
       \/ /\ Raise("IOError")
          /\ UNCHANGED files
    /\ UNCHANGED <<args, model_bound, proc, traces, idx, trace_weights,
                   archives, caught, signals, cwd>>
    /\ UNCHANGED <<paramVars, rt, plot>>

\* line 169: traces.copy(file_name=.../traces); the try body ends here
SaveTraces ==
    /\ pc = "save_traces"
    /\ \/ /\ files' = files \cup {TracesFile}
          /\ pc' = "finally"
          /\ UNCHANGED exc
       \/ /\ Raise("IOError")
          /\ UNCHANGED files
    /\ UNCHANGED <<args, model_bound, proc, traces, idx, trace_weights,
                   archives, caught, signals, cwd>>
    /\ UNCHANGED <<paramVars, rt, plot>>

\* the except clause entered with the signal sent first
ExceptHandlerKillFirst ==
    /\ pc = "except"
    /\ caught' = exc
    /\ signals' = IF model_bound /\ proc = "alive" THEN signals + 1 ELSE signals
    /\ pc' = IF args.compressed_file_path THEN "zip_failed" ELSE "finally"
    /\ UNCHANGED <<args, model_bound, proc, traces, idx, trace_weights, files,
                   archives, exc, cwd>>
    /\ UNCHANGED <<paramVars, rt, plot>>

\* lines 170-171: except Exception as e: if args.compressed_file_path is not None
ExceptHandler ==
    /\ pc = "except"
    /\ caught' = exc
    /\ pc' = IF args.compressed_file_path THEN "zip_failed" ELSE "finally"
    /\ UNCHANGED <<args, model_bound, proc, traces, idx, trace_weights, files,
                   archives, exc, signals, cwd>>
    /\ UNCHANGED <<paramVars, rt, plot>>

\* lines 174-175: zipdir(f'{compressed_file_path}_failed', out_dir); raise e
\* An error of zipdir replaces e as the exception in flight.
ArchiveFailed ==
    /\ pc = "zip_failed"
    /\ \E outcome \in ZipOutcomes :
         /\ zipdir("zip_failed", outcome)
         /\ exc' = IF outcome = "ok" THEN caught ELSE "ZipError"
    /\ pc' = "finally"
    /\ UNCHANGED <<args, model_bound, proc, traces, idx, trace_weights, files,
                   caught, signals>>
    /\ UNCHANGED <<paramVars, rt, plot>>

\* lines 176-179: finally. `model` is unbound when RemoteModel(...) raised;
\* os.getpgid raises ProcessLookupError when the tracked pid no longer exists.
\* An exception raised here replaces the one in flight.
Finally ==
    /\ pc = "finally"
    /\ CASE ~model_bound ->
              /\ exc' = "UnboundLocalError"
              /\ pc' = "raised"
              /\ UNCHANGED signals
         [] model_bound /\ proc = "none" ->
              /\ pc' = IF exc = "none" THEN "after_finally" ELSE "raised"
              /\ UNCHANGED <<exc, signals>>
         [] model_bound /\ proc = "alive" ->
              /\ signals' = signals + 1
              /\ pc' = IF exc = "none" THEN "after_finally" ELSE "raised"
              /\ UNCHANGED exc
         [] model_bound /\ proc = "gone" ->
              /\ exc' = "ProcessLookupError"
              /\ pc' = "raised"
              /\ UNCHANGED signals
    /\ UNCHANGED <<args, model_bound, proc, traces, idx, trace_weights, files,
                   archives, caught, cwd>>
    /\ UNCHANGED <<paramVars, rt, plot>>

\* lines 182-185: the archive of a successful run
ArchiveSuccess ==
    /\ pc = "after_finally"
    /\ IF args.compressed_file_path
       THEN \E outcome \in ZipOutcomes :
              /\ zipdir("zip", outcome)
              /\ exc' = IF outcome = "ok" THEN "none" ELSE "ZipError"
              /\ pc' = IF outcome = "ok" THEN "returned" ELSE "raised"
       ELSE /\ pc' = "returned"
            /\ UNCHANGED <<archives, exc, cwd>>
    /\ UNCHANGED <<args, model_bound, proc, traces, idx, trace_weights, files,
                   caught, signals>>
    /\ UNCHANGED <<paramVars, rt, plot>>

\* The environment: the tracked shell process (sh -c '... &') ends and is
\* reaped, so that its pid no longer exists, at any time before cleanup.
SimulatorExits ==
    /\ proc = "alive"
    /\ pc \in {"dump", "assert", "classify", "save_weights", "save_traces",
               "except", "zip_failed", "finally"}
    /\ proc' = "gone"
    /\ UNCHANGED <<args, pc, model_bound, traces, idx, trace_weights, files,
                   archives, exc, caught, signals, cwd>>
    /\ UNCHANGED <<paramVars, rt, plot>>

-----------------------------------------------------------------------------
(* Strings and dicts                                                       *)

\* str.strip(): leading and trailing blanks removed
RECURSIVE LStrip(_)
LStrip(s) == IF s # <<>> /\ Head(s) = " " THEN LStrip(Tail(s)) ELSE s

RECURSIVE RStrip(_)
RStrip(s) == IF s # <<>> /\ s[Len(s)] = " " THEN RStrip(SubSeq(s, 1, Len(s) - 1)) ELSE s

Strip(s) == RStrip(LStrip(s))

\* str.startswith(c)
StartsWith(s, c) == s # <<>> /\ Head(s) = c

\* position of the first c in s, 0 when there is none
FirstIndex(s, c) ==
    IF \E i \in 1..Len(s) : s[i] = c
    THEN CHOOSE i \in 1..Len(s) : s[i] = c /\ \A j \in 1..(i - 1) : s[j] # c
    ELSE 0

\* str.split(c): cut at every occurrence of c
RECURSIVE Split(_, _)
Split(s, c) ==
    LET i == FirstIndex(s, c)
    IN  IF i = 0 THEN <<s>>
        ELSE <<SubSeq(s, 1, i - 1)>> \o Split(SubSeq(s, i + 1, Len(s)), c)

\* dict: insertion-ordered sequence of <<key, value>>, keys unique
DictKeys(d) == {d[i][1] : i \in 1..Len(d)}

DictHas(d, k) == k \in DictKeys(d)

DictGet(d, k) == d[CHOOSE i \in 1..Len(d) : d[i][1] = k][2]

\* d[k] = v: an existing key keeps its position
DictSet(d, k, v) ==
    IF DictHas(d, k)
    THEN [i \in 1..Len(d) |-> IF d[i][1] = k THEN <<k, v>> ELSE d[i]]
    ELSE Append(d, <<k, v>>)

\* del d[k]
DictDel(d, k) == SelectSeq(d, LAMBDA e : e[1] # k)

\* d.update(e)
RECURSIVE DictUpdate(_, _)
DictUpdate(d, e) ==
    IF e = <<>> THEN d
    ELSE DictUpdate(DictSet(d, Head(e)[1], Head(e)[2]), Tail(e))

\* f.write(f'{param} = {value}\n'): one line, without its newline
FormatLine(k, v) == k \o <<" ", "=", " ">> \o v

\* for param, value in params.items(): f.write(...)
WriteParamLines(d) == [i \in 1..Len(d) |-> FormatLine(d[i][1], d[i][2])]

\* lines 50-51: strip every line, drop comments and blank lines
ParamLines(lines) ==
    SelectSeq([i \in 1..Len(lines) |-> Strip(lines[i])],
              LAMBDA x : ~(StartsWith(x, "#") \/ x = <<>>))

\* lines 53-57: parts = split('='); name = parts[0]; value = parts[1].
\* A line without '=' has a single part and parts[1] raises IndexError.
RECURSIVE ParseParamLines(_, _)
ParseParamLines(lines, acc) ==
    IF lines = <<>> THEN [raised |-> FALSE, dict |-> acc]
    ELSE LET parts == Split(Head(lines), "=")
         IN  IF Len(parts) < 2 THEN [raised |-> TRUE, dict |-> <<>>]
             ELSE ParseParamLines(Tail(lines),
                                  DictSet(acc, Strip(parts[1]), Strip(parts[2])))

read_param_file(lines) == ParseParamLines(ParamLines(lines), <<>>)

-----------------------------------------------------------------------------
(* get_default_params, dump_parameter_file and the defaults cache          *)

\* calls of get_default_params, directly or through dump_parameter_file
MaxCalls == 2
MaxMutations == 1

KA == <<"a">>
KB == <<"b">>
KC == <<"c">>
\* the keys a caller overwrites or deletes (a) and adds (c)
MutatedKeys == {KA, KC}

\* the dicts with keys among ks (in the order a, b, c) and values among vs
DictsOver(ks, vs) ==
    LET opt(k) == {<<>>} \cup {<<<<k, v>>>> : v \in vs}
    IN  {x \o y \o z : x \in IF KA \in ks THEN opt(KA) ELSE {<<>>},
                       y \in IF KB \in ks THEN opt(KB) ELSE {<<>>},
                       z \in IF KC \in ks THEN opt(KC) ELSE {<<>>}}

DefaultsChoices == DictsOver({KA, KB}, {<<"1">>, <<"2">>})
BaseChoices     == DictsOver({KB, KC}, {<<"3">>}) \cup {<<<<KB, <<"3">>>>, <<KC, <<"4">>>>>>}
SampledChoices  == DictsOver({KA, KC}, {<<"5">>})
HomeDefaults    == <<<<KA, <<"2">>>>, <<KC, <<"1">>>>>>
RewrittenDefaults == <<<<KB, <<"9">>>>>>

AbsentFile == [exists |-> FALSE, lines |-> <<>>]

\* a parameter file as it lies on disk: a comment, a blank line, the entries
FileOf(d) == [exists |-> TRUE,
              lines  |-> <<<<"#", " ", "x">>, <<>>>> \o WriteParamLines(d)]

MaxAddr == 2 * MaxCalls + 1

NewAddr(hp) == CHOOSE a \in 1..MaxAddr : a \notin DOMAIN hp /\ \A b \in 1..(a - 1) : b \in DOMAIN hp

ParamsInit ==
    /\ cwd_defaults \in {AbsentFile} \cup {FileOf(d) : d \in DefaultsChoices}
    /\ home_defaults \in {AbsentFile, FileOf(HomeDefaults)}
    /\ default_params = 0
    /\ heap = <<>>
    /\ handles = {}
    /\ out_file = <<>>
    /\ pstat = [calls |-> 0, mutations |-> 0,
                populated |-> 0, first_parsed |-> <<>>,
                returned |-> FALSE, last_ret |-> <<>>, after_mutation |-> FALSE,
                dumped |-> FALSE, last_B |-> <<>>, last_S |-> <<>>]

\* get_default_params with the cache bound to the very dict it returns
get_default_params_alias(cache, hp, cwdf, homef) ==
    IF cache # 0
    THEN LET a == NewAddr(hp)
         IN  [raised |-> FALSE, ret |-> a, cache |-> cache,
              heap |-> hp @@ (a :> hp[cache]), read |-> FALSE]
    ELSE IF ~cwdf.exists /\ ~homef.exists
    THEN [raised |-> TRUE, ret |-> 0, cache |-> cache, heap |-> hp, read |-> FALSE]
    ELSE LET r == read_param_file(IF cwdf.exists THEN cwdf.lines ELSE homef.lines)
             a == NewAddr(hp)
         IN  IF r.raised
             THEN [raised |-> TRUE, ret |-> 0, cache |-> cache, heap |-> hp, read |-> FALSE]
             ELSE [raised |-> FALSE, ret |-> a, cache |-> a,
                   heap |-> hp @@ (a :> r.dict), read |-> TRUE]

\* lines 60-71. The result: whether it raised, the address of the dict
\* returned, the global and the heap afterwards, whether the file was read.
get_default_params(cache, hp, cwdf, homef) ==
    IF cache # 0
    THEN LET a == NewAddr(hp)
         IN  [raised |-> FALSE, ret |-> a, cache |-> cache,
              heap |-> hp @@ (a :> hp[cache]), read |-> FALSE]
    ELSE IF ~cwdf.exists /\ ~homef.exists
    THEN [raised |-> TRUE, ret |-> 0, cache |-> cache, heap |-> hp, read |-> FALSE]
    ELSE LET r == read_param_file(IF cwdf.exists THEN cwdf.lines ELSE homef.lines)
             a == NewAddr(hp)
             c == NewAddr(hp @@ (a :> r.dict))
         IN  IF r.raised
             THEN [raised |-> TRUE, ret |-> 0, cache |-> cache, heap |-> hp, read |-> FALSE]
             ELSE [raised |-> FALSE, ret |-> a, cache |-> c,
                   heap |-> hp @@ (a :> r.dict) @@ (c :> r.dict), read |-> TRUE]

\* the bookkeeping of one get_default_params call with result g
Noted(g) ==
    [pstat EXCEPT !.calls = @ + 1,
                  !.populated = IF g.read THEN @ + 1 ELSE @,
                  !.first_parsed = IF g.read /\ pstat.populated = 0
                                   THEN g.heap[g.ret] ELSE @,
                  !.returned = ~g.raised,
                  !.after_mutation = pstat.mutations > 0 /\ pstat.populated > 0,
                  !.last_ret = IF g.raised THEN <<>> ELSE g.heap[g.ret]]

\* the heap without the dicts nothing refers to any more
Collect(hp, live) == [a \in DOMAIN hp \cap live |-> hp[a]]

\* a caller asks for the defaults and keeps the dict it is handed
CallGetDefaultParams ==
    /\ pstat.calls < MaxCalls
    /\ LET g == get_default_params(default_params, heap, cwd_defaults, home_defaults)
       IN  /\ default_params' = g.cache
           /\ heap' = g.heap
           /\ handles' = IF g.raised THEN handles ELSE handles \cup {g.ret}
           /\ pstat' = Noted(g)
    /\ UNCHANGED <<cwd_defaults, home_defaults, out_file>>
    /\ UNCHANGED <<runVars, rt, plot>>

\* a caller adds, overwrites or deletes a key of a dict it was handed
CallerMutates ==
    /\ pstat.mutations < MaxMutations
    /\ \E h \in handles, k \in MutatedKeys :
         \/ heap' = [heap EXCEPT ![h] = DictSet(@, k, <<"7">>)]
         \/ /\ DictHas(heap[h], k)
            /\ heap' = [heap EXCEPT ![h] = DictDel(@, k)]
    /\ pstat' = [pstat EXCEPT !.mutations = @ + 1]
    /\ UNCHANGED <<cwd_defaults, home_defaults, default_params, handles, out_file>>
    /\ UNCHANGED <<runVars, rt, plot>>

\* the three layers merged with the base file applied last
MergeLayersBaseLast(D, B, S) == DictUpdate(DictUpdate(D, S), B)

\* lines 74-76: params = defaults; params.update(base); params.update(sampled)
MergeLayers(D, B, S) == DictUpdate(DictUpdate(D, B), S)

\* dump_parameter_file(path, args, sampled_parameters): args.params holds the
\* lines of base, sampled is the overlay. The dict it was handed by
\* get_default_params is updated in place and dropped on return.
DumpParameterFile ==
    /\ pstat.calls < MaxCalls
    /\ \E base \in BaseChoices, sampled \in SampledChoices :
         LET g == get_default_params(default_params, heap, cwd_defaults, home_defaults)
             b == read_param_file(FileOf(base).lines)
             merged == MergeLayers(g.heap[g.ret], b.dict, sampled)
             hp == [g.heap EXCEPT ![g.ret] = merged]
         IN  /\ default_params' = g.cache
             /\ IF g.raised \/ b.raised
                THEN /\ heap' = Collect(g.heap, handles \cup {g.cache})
                     /\ UNCHANGED out_file
                     /\ pstat' = [Noted(g) EXCEPT !.dumped = FALSE]
                ELSE /\ heap' = Collect(hp, handles \cup {g.cache})
                     /\ out_file' = WriteParamLines(hp[g.ret])
                     /\ pstat' = [Noted(g) EXCEPT !.dumped = TRUE,
                                                  !.last_B = base, !.last_S = sampled]
    /\ UNCHANGED <<cwd_defaults, home_defaults, handles>>
    /\ UNCHANGED <<runVars, rt, plot>>

\* the environment: ./defaults is rewritten or removed between two calls
DefaultsRewritten ==
    /\ cwd_defaults' \in {AbsentFile, FileOf(RewrittenDefaults)} \ {cwd_defaults}
    /\ UNCHANGED <<home_defaults, default_params, heap, handles, out_file, pstat>>
    /\ UNCHANGED <<runVars, rt, plot>>

-----------------------------------------------------------------------------
(* Round trip: the name = value writer, then read_param_file               *)

MaxStrLen == 2
MaxEntries == 2

Chars == {"a", " ", "=", "#"}

Strings == SeqsUpTo(Chars, MaxStrLen)

HasChar(s, c) == \E i \in 1..Len(s) : s[i] = c

\* keys: trimmed, no '=', not starting with '#'
RTKeys == {s \in Strings : Strip(s) = s /\ ~HasChar(s, "=") /\ ~StartsWith(s, "#")}

\* values: trimmed
RTValues == {s \in Strings : Strip(s) = s}

RTDicts ==
    {d \in SeqsUpTo(RTKeys \X RTValues, MaxEntries) :
        \A i, j \in 1..Len(d) : d[i][1] = d[j][1] => i = j}

\* Python's dict equality: the same keys with the same values
DictEq(d, e) ==
    /\ DictKeys(d) = DictKeys(e)
    /\ \A k \in DictKeys(d) : DictGet(d, k) = DictGet(e, k)

RTInit == rt \in [stage : {"mapping"}, map : RTDicts, lines : {<<>>}, back : {<<>>}]

\* for param, value in params.items(): f.write(f'{param} = {value}\n')
RTWrite ==
    /\ rt.stage = "mapping"
    /\ rt' = [rt EXCEPT !.stage = "written", !.lines = WriteParamLines(rt.map)]
    /\ UNCHANGED <<runVars, paramVars, plot>>

\* read_param_file(path) on the file just written
RTRead ==
    /\ rt.stage = "written"
    /\ LET r == read_param_file(rt.lines)
       IN  rt' = [rt EXCEPT !.stage = IF r.raised THEN "IndexError" ELSE "read",
                            !.back = r.dict]
    /\ UNCHANGED <<runVars, paramVars, plot>>

-----------------------------------------------------------------------------
(* make_trajectory_plot: the simulations plotted one by one                *)

\* n_sims_to_plot = 100
n_sims_to_plot == 100
\* np.random.randint(0, 1000, n_sims_to_plot): every entry is in 0..999
RandHigh == 1000

\* ensemble sizes len(_valid_simulations) tried
EnsembleSizes == {1, 2, 99, 100, 101, 1000}

PlotInit == plot \in [stage : {"called"}, n : EnsembleSizes, use : {"none"},
                      count : {0}, k : {0}, i : {-1}]

\* lines 77-80: range(len(_valid_simulations)) or the random indices
SelectSims ==
    /\ plot.stage = "called"
    /\ plot' = IF n_sims_to_plot > plot.n
               THEN [plot EXCEPT !.stage = "loop", !.use = "range", !.count = plot.n]
               ELSE [plot EXCEPT !.stage = "loop", !.use = "random",
                                 !.count = n_sims_to_plot]
    /\ UNCHANGED <<runVars, paramVars, rt>>

\* for _i in __sims_to_plot: the k-th selected index. An entry of
\* _sims_to_plot is whatever randint drew, any of 0..RandHigh-1.
NextSim ==
    /\ plot.stage = "loop"
    /\ plot.k < plot.count
    /\ \E i \in IF plot.use = "range" THEN {plot.k} ELSE 0..(RandHigh - 1) :
         plot' = [plot EXCEPT !.stage = "index", !.i = i]
    /\ UNCHANGED <<runVars, paramVars, rt>>

\* lines 103-107: _alphas[_i] and the series columns [:, _i], each of
\* length len(_valid_simulations)
PlotSim ==
    /\ plot.stage = "index"
    /\ plot' = IF plot.i < plot.n
               THEN [plot EXCEPT !.stage = "loop", !.k = @ + 1, !.i = -1]
               ELSE [plot EXCEPT !.stage = "IndexError"]
    /\ UNCHANGED <<runVars, paramVars, rt>>

\* the comprehension is exhausted
PlotDone ==
    /\ plot.stage = "loop"
    /\ plot.k = plot.count
    /\ plot' = [plot EXCEPT !.stage = "done"]
    /\ UNCHANGED <<runVars, paramVars, rt>>

-----------------------------------------------------------------------------
(* The specifications                                                      *)

RunIdle ==
    /\ args = [compressed_file_path |-> FALSE, dump_simulator_log |-> FALSE,
               num_traces |-> 0]
    /\ pc = "idle"
    /\ model_bound = FALSE
    /\ proc = "none"
    /\ traces = <<>>
    /\ idx = 0
    /\ trace_weights = <<>>
    /\ files = {}
    /\ archives = [p \in {"zip", "zip_failed"} |-> NoArchive]
    /\ exc = "none"
    /\ caught = "none"
    /\ signals = 0
    /\ cwd = "orig"

ParamsIdle ==
    /\ cwd_defaults = AbsentFile
    /\ home_defaults = AbsentFile
    /\ default_params = 0
    /\ heap = <<>>
    /\ handles = {}
    /\ out_file = <<>>
    /\ pstat = [calls |-> MaxCalls, mutations |-> MaxMutations,
                populated |-> 0, first_parsed |-> <<>>,
                returned |-> FALSE, last_ret |-> <<>>, after_mutation |-> FALSE,
                dumped |-> FALSE, last_B |-> <<>>, last_S |-> <<>>]

RTIdle == rt = [stage |-> "idle", map |-> <<>>, lines |-> <<>>, back |-> <<>>]

PlotIdle == plot = [stage |-> "idle", n |-> 0, use |-> "none", count |-> 0,
                    k |-> 0, i |-> -1]

Init == RunInit /\ ParamsIdle /\ RTIdle /\ PlotIdle

Next ==
    \/ ConstructModel
    \/ Posterior
    \/ DumpParams
    \/ AssertWeight
    \/ Classify
    \/ SaveWeights
    \/ SaveTraces
    \/ ExceptHandler
    \/ ArchiveFailed
    \/ Finally
    \/ ArchiveSuccess
    \/ SimulatorExits

Spec == Init /\ [][Next]_vars

InitParams == ParamsInit /\ RunIdle /\ RTIdle /\ PlotIdle

NextParams ==
    \/ CallGetDefaultParams
    \/ CallerMutates
    \/ DumpParameterFile
    \/ DefaultsRewritten

SpecParams == InitParams /\ [][NextParams]_vars

InitRoundTrip == RTInit /\ RunIdle /\ ParamsIdle /\ PlotIdle

NextRoundTrip == RTWrite \/ RTRead

SpecRoundTrip == InitRoundTrip /\ [][NextRoundTrip]_vars

InitPlot == PlotInit /\ RunIdle /\ ParamsIdle /\ RTIdle

NextPlot == SelectSims \/ NextSim \/ PlotSim \/ PlotDone

SpecPlot == InitPlot /\ [][NextPlot]_vars

-----------------------------------------------------------------------------
(* Properties of run(args)                                                 *)

RunOver == pc \in {"returned", "raised"}

\* the try body ran to its end: traces saved and nothing was caught
InferenceSucceeded == TracesFile \in files /\ caught = "none"

\* C1: when run has returned or raised and the handle tracks a spawned
\* simulator process, exactly one SIGTERM was sent to its process group.
C1_ExactlyOneSignal ==
    (RunOver /\ model_bound /\ proc # "none") => signals = 1

\* C2: when an error E raised inside the try block leaves run, the error
\* that leaves is E itself; the _failed archive of the output directory was
\* written if compressed_file_path is set, and no archive otherwise.
C2_OriginalErrorReraised ==
    (pc = "raised" /\ caught # "none") =>
        /\ exc = caught
        /\ Archive("zip_failed").status =
              IF args.compressed_file_path THEN "complete" ELSE "absent"

\* C3: when the inference steps all succeeded and compressed_file_path is
\* set, run ends with the output directory archived at compressed_file_path,
\* whatever the state of the tracked process at cleanup (an error of the
\* archive step itself apart).
C3_ArchivedOnSuccess ==
    (RunOver /\ InferenceSucceeded /\ args.compressed_file_path /\ exc # "ZipError") =>
        /\ pc = "returned"
        /\ Archive("zip").status = "complete"
        /\ Archive("zip_failed").status = "absent"

\* C4 as stated: the assertion on the weight of trace idx comes before the
\* write of params<idx>, so that no params<idx> exists for a trace whose
\* weight fails the assertion.
C4_AssertBeforeWrite ==
    /\ pc = "assert" => ParamsFile(idx) \notin files
    /\ \A i \in 0..(Len(traces) - 1) :
         ParamsFile(i) \in files => WeightOutsideBand(traces[i + 1])

\* C4 amended: params<idx> is written first, then the weight is asserted,
\* then the trace is classified; params<idx> exists whenever the assertion
\* on trace idx is evaluated, also when it fails, and every classified trace
\* has its file and a weight outside the band.
C4_WriteAssertClassify ==
    /\ pc = "assert" => ParamsFile(idx) \in files /\ Len(trace_weights) = idx
    /\ pc = "classify" =>
         /\ ParamsFile(idx) \in files
         /\ WeightOutsideBand(traces[idx + 1])
         /\ Len(trace_weights) = idx
    /\ exc = "AssertionError" => ParamsFile(idx) \in files /\ Len(trace_weights) = idx
    /\ \A i \in 1..Len(trace_weights) :
         ParamsFile(i - 1) \in files /\ WeightOutsideBand(traces[i])

\* a trace failed the assertion and its params file is in the directory
C4_Witness ==
    /\ pc = "except"
    /\ exc = "AssertionError"
    /\ idx = 1
    /\ ~WeightOutsideBand(traces[idx + 1])
    /\ ParamsFile(idx) \in files
    /\ Len(trace_weights) = 1

\* the assertion of line 159 fired (on the trace at idx, where the loop stopped)
AssertFired == exc = "AssertionError" \/ caught = "AssertionError"

\* the loop is through with trace i: classified, or stopped by its assertion
Handled(i) == i < idx \/ (i = idx /\ AssertFired)

Classified(i, c) == i + 1 \in 1..Len(trace_weights) /\ trace_weights[i + 1] = c

\* C5 as stated: weight 0.5 is classified 0, weight 0.51 is classified 1,
\* weights 0.3 and 0.7 trigger the ambiguous-band assertion.
C5_BoundaryAsStated ==
    \A i \in 0..(Len(traces) - 1) :
        Handled(i) =>
            LET w == traces[i + 1]
            IN  /\ w = 50 => Classified(i, 0)
                /\ w = 51 => Classified(i, 1)
                /\ w \in {30, 70} => (i = idx /\ AssertFired)

\* C5 amended: every weight in [0.2, 0.8], 0.3, 0.5, 0.51 and 0.7 among
\* them, triggers the assertion and is not classified; a weight below 0.2 is
\* classified 0 and a weight above 0.8 is classified 1.
C5_BoundaryAmended ==
    \A i \in 0..(Len(traces) - 1) :
        Handled(i) =>
            LET w == traces[i + 1]
            IN  /\ (w >= 20 /\ w <= 80) =>
                      (i = idx /\ AssertFired /\ Len(trace_weights) = i)
                /\ w < 20 => Classified(i, 0)
                /\ w > 80 => Classified(i, 1)

\* a weight below and a weight above the band were classified and weight 0.5
\* then stopped the run
C5_Witness ==
    /\ pc = "raised"
    /\ caught = "AssertionError"
    /\ Len(traces) = 3
    /\ traces[1] = 10 /\ Classified(0, 0)
    /\ traces[2] = 90 /\ Classified(1, 1)
    /\ traces[3] = 50 /\ idx = 2 /\ Len(trace_weights) = 2

\* C9: in a failing run with compressed_file_path set the _failed archive
\* step comes before the signal: no signal has been sent while the handler or
\* the archive step is pending, and once a signal was sent the archive step
\* has run (the archive exists, or zipdir itself raised).
C9_ArchiveBeforeSignal ==
    /\ pc \in {"except", "zip_failed"} => signals = 0
    /\ (signals > 0 /\ caught # "none" /\ args.compressed_file_path) =>
         (Archive("zip_failed").status # "absent" \/ exc = "ZipError")

\* the archive step is about to read the output directory while the tracked
\* simulator, whose LOG file lies in that directory, has not been signalled
C9_Witness ==
    /\ pc = "zip_failed"
    /\ proc = "alive"
    /\ signals = 0
    /\ \E i \in 0..MaxTraces : LogFile(i) \in files

-----------------------------------------------------------------------------
(* Properties of the parameter files                                       *)

Range(f) == {f[i] : i \in DOMAIN f}

\* C6: the cache is filled at most once, it keeps the mapping parsed at the
\* first successful read whatever callers do to the dicts they were handed,
\* and every call that returns hands back a mapping equal to it.
C6_CacheIsolation ==
    /\ pstat.populated <= 1
    /\ default_params = 0 <=> pstat.populated = 0
    /\ default_params # 0 => heap[default_params] = pstat.first_parsed
    /\ (pstat.returned /\ pstat.populated > 0) => pstat.last_ret = pstat.first_parsed

\* a caller changed the dict it was handed, and a later call still returned
\* the mapping of the first read
C6_Witness ==
    /\ pstat.calls >= 2
    /\ pstat.returned
    /\ pstat.after_mutation
    /\ pstat.first_parsed # <<>>
    /\ pstat.last_ret = pstat.first_parsed
    /\ \E h \in handles : heap[h] # pstat.first_parsed

\* the value the layering gives key k
Layered(D, B, S, k) ==
    IF DictHas(S, k) THEN DictGet(S, k)
    ELSE IF DictHas(B, k) THEN DictGet(B, k)
    ELSE DictGet(D, k)

\* C7: the file dump_parameter_file writes holds, for defaults D, base file B
\* and overlay S, one line per key of D, B or S and no other line: the S
\* value for a key of S, else the B value for a key of B, else the D value.
C7_LayeringPrecedence ==
    pstat.dumped =>
        LET D == pstat.first_parsed
            B == pstat.last_B
            S == pstat.last_S
            K == DictKeys(D) \cup DictKeys(B) \cup DictKeys(S)
        IN  /\ Len(out_file) = Cardinality(K)
            /\ \A k \in K : FormatLine(k, Layered(D, B, S, k)) \in Range(out_file)

\* D = {a: 1, b: 2}, B = {b: 3, c: 4}, S = {c: 5} written as {a: 1, b: 3, c: 5}
C7_Witness ==
    /\ pstat.dumped
    /\ pstat.first_parsed = <<<<KA, <<"1">>>>, <<KB, <<"2">>>>>>
    /\ pstat.last_B = <<<<KB, <<"3">>>>, <<KC, <<"4">>>>>>
    /\ pstat.last_S = <<<<KC, <<"5">>>>>>
    /\ out_file = << <<"a", " ", "=", " ", "1">>,
                     <<"b", " ", "=", " ", "3">>,
                     <<"c", " ", "=", " ", "5">> >>

\* C8: a mapping with trimmed keys without '=' and not starting with '#', and
\* trimmed values, written as name = value lines and read back by
\* read_param_file, comes back as the same mapping.
C8_RoundTrip ==
    rt.stage \in {"read", "IndexError"} =>
        rt.stage = "read" /\ DictEq(rt.back, rt.map)

-----------------------------------------------------------------------------
(* Properties of make_trajectory_plot                                      *)

\* C10: every index selected for plotting lies in 0..n-1; with n < 100 the
\* indices are 0..n-1 in turn, and never more than 100 are selected.
C10_IndicesInRange ==
    /\ plot.stage = "index" => plot.i \in 0..(plot.n - 1)
    /\ plot.stage # "IndexError"
    /\ (plot.stage \in {"loop", "index", "done"} /\ plot.n < 100) =>
          (plot.use = "range" /\ plot.count = plot.n)
    /\ plot.count <= 100

=============================================================================
